---- MODULE Spec2Model ----
(***************************************************************************)
(* PaveTheWay: the repair-request store (data/User_Requests.csv), the      *)
(* selection state of the Streamlit sessions that feed it, the FastAPI     *)
(* endpoints that append to it and upvote its rows, and the municipal      *)
(* pothole feed filter.                                                    *)
(*                                                                         *)
(* The store is a CSV file rewritten in full by every writer through       *)
(* pandas (read_csv / concat / to_csv).  The model keeps the file at the   *)
(* level of its text cells and a DataFrame at the level of typed cells,    *)
(* so that reading and writing are conversions and not the identity.       *)
(***************************************************************************)
EXTENDS Integers, Sequences, FiniteSets, TLC

(***************************************************************************)
(* Bounds of the model.                                                    *)
(***************************************************************************)
MaxRows == 2
MaxRating == 2
MaxClock == 4
MaxFeedRows == 2
MaxTick == 3
MaxItems == 2
MaxListRows == 11

(***************************************************************************)
(* Cells.  A cell is a record [k, n, s]: an empty/NaN cell, an integer, a  *)
(* float (coordinates and float ratings are whole numbers of the model's   *)
(* unit), an infinite float or a string.                                   *)
(***************************************************************************)
NaN == [k |-> "nan", n |-> 0, s |-> ""]
IntCell(n) == [k |-> "int", n |-> n, s |-> ""]
FloatCell(n) == [k |-> "float", n |-> n, s |-> ""]
StrCell(s) == [k |-> "str", n |-> 0, s |-> s]
\* float('inf'), which read_csv and float() both produce from the text "inf".
Inf == [k |-> "inf", n |-> 0, s |-> ""]

Range(f) == {f[i] : i \in DOMAIN f}

Min(a, b) == IF a <= b THEN a ELSE b

\* Optional values of the session state: Python None or a number.
None == [some |-> FALSE, v |-> 0]
Some(x) == [some |-> TRUE, v |-> x]

\* Python truthiness of a session value: None and 0.0 are falsy.
Truthy(o) == o.some /\ o.v # 0

(***************************************************************************)
(* datetime.utcnow().isoformat(): the text of clock reading t.             *)
(***************************************************************************)
IsoTable ==
    << "2025-01-01T00:00:00.000001", "2025-01-01T00:00:00.000002",
       "2025-01-01T00:00:00.000003", "2025-01-01T00:00:00.000004",
       "2025-01-01T00:00:00.000005", "2025-01-01T00:00:00.000006",
       "2025-01-01T00:00:00.000007", "2025-01-01T00:00:00.000008" >>

isoformat(t) == IsoTable[t]

\* Rank of a timestamp text in lexicographic order (0 for any other text).
TsRank(s) ==
    IF \E i \in DOMAIN IsoTable : IsoTable[i] = s
    THEN CHOOSE i \in DOMAIN IsoTable : IsoTable[i] = s
    ELSE 0

(***************************************************************************)
(* pandas.read_csv: the strings it reads as missing, and the texts it      *)
(* reads as integers.                                                      *)
(***************************************************************************)
NAStrings == {"", "N/A", "NA", "NULL", "NaN", "None", "n/a", "nan", "null"}

\* Texts of the model that parse as an integer, with their value.
IntTexts == {"7", "007"}
IntValue(s) == IF s \in IntTexts THEN 7 ELSE 0
\* str(n) for the integers that ids can take.
Numeral(n) == IF n = 7 THEN "7" ELSE "0"
CanonicalNumerals == {"7"}

\* The columns of a table, as a set.
ColSet(t) == Range(t.cols)

(***************************************************************************)
(* The store file.  exists: os.path.exists; ok: its bytes parse as CSV;    *)
(* cols/rows: the header and the text cells of each line.                  *)
(***************************************************************************)
Absent == [exists |-> FALSE, ok |-> FALSE, cols |-> <<>>, rows |-> <<>>]
Malformed == [exists |-> TRUE, ok |-> FALSE, cols |-> <<>>, rows |-> <<>>]

(***************************************************************************)
(* pandas.read_csv.  Every cell that is one of the NA strings becomes NaN; *)
(* then each column gets one dtype: int64 when every cell is an integer    *)
(* text, float64 when every cell is numeric or missing, object otherwise   *)
(* (the cells of an object column are the texts as written; a float cell  *)
(* there stands for its text, which float() reads back as the number).     *)
(***************************************************************************)
ParseNA(c) == IF c.k = "str" /\ c.s \in NAStrings THEN NaN ELSE c

\* Texts that parse as an infinite float.
InfTexts == {"inf"}

NumericLike(c) ==
    \/ c.k \in {"int", "float", "nan", "inf"}
    \/ c.k = "str" /\ c.s \in IntTexts \cup InfTexts

NumValue(c) == IF c.k = "str" THEN IntValue(c.s) ELSE c.n

ColumnCells(rows, col) == {ParseNA(rows[i][col]) : i \in DOMAIN rows}

InferCell(cells, c) ==
    IF \A x \in cells : NumericLike(x)
    THEN IF \E x \in cells : x.k \in {"float", "nan", "inf"} \/ (x.k = "str" /\ x.s \in InfTexts)
         THEN (IF c.k = "nan" THEN NaN
               ELSE IF c.k = "inf" \/ (c.k = "str" /\ c.s \in InfTexts) THEN Inf
               ELSE FloatCell(NumValue(c)))
         ELSE IntCell(NumValue(c))
    ELSE IF c.k = "int" THEN StrCell(Numeral(c.n)) ELSE c

read_csv(f) ==
    [cols |-> f.cols,
     rows |-> [i \in DOMAIN f.rows |->
                [col \in ColSet(f) |->
                    InferCell(ColumnCells(f.rows, col), ParseNA(f.rows[i][col]))]]]

(***************************************************************************)
(* DataFrame.to_csv(path, index=False): the text of each cell.  A missing  *)
(* value and the empty string are both written as an empty field; a string *)
(* that spells an integer is written as that integer's digits.             *)
(***************************************************************************)
TextOf(c) ==
    IF c.k = "str"
    THEN IF c.s = "" THEN NaN
         ELSE IF c.s \in CanonicalNumerals THEN IntCell(IntValue(c.s))
         ELSE c
    ELSE IF c.k = "inf" THEN StrCell("inf")
    ELSE c

to_csv(df) ==
    [exists |-> TRUE, ok |-> TRUE, cols |-> df.cols,
     rows |-> [i \in DOMAIN df.rows |->
                [col \in Range(df.cols) |-> TextOf(df.rows[i][col])]]]

(***************************************************************************)
(* pd.concat([df, new], ignore_index=True): the columns of df followed by  *)
(* the columns only new has; a row lacking a column gets NaN there, and an *)
(* integer column that receives a NaN or a float becomes float64.          *)
(***************************************************************************)
Upcast(df) ==
    LET cells(col) == {df.rows[i][col] : i \in DOMAIN df.rows}
        floats(col) == /\ \A x \in cells(col) : x.k \in {"int", "float", "nan", "inf"}
                       /\ \E x \in cells(col) : x.k \in {"float", "nan", "inf"}
    IN  [cols |-> df.cols,
         rows |-> [i \in DOMAIN df.rows |->
                    [col \in Range(df.cols) |->
                        IF floats(col) /\ df.rows[i][col].k = "int"
                        THEN FloatCell(df.rows[i][col].n)
                        ELSE df.rows[i][col]]]]

concat(df, new) ==
    LET cols == df.cols \o SelectSeq(new.cols, LAMBDA c : c \notin Range(df.cols))
        ext(r) == [c \in Range(cols) |-> IF c \in DOMAIN r THEN r[c] ELSE NaN]
    IN  Upcast([cols |-> cols,
                rows |-> [i \in DOMAIN df.rows |-> ext(df.rows[i])]
                         \o [i \in DOMAIN new.rows |-> ext(new.rows[i])]])

\* Series.astype(str) of one cell.
astype_str(c) ==
    IF c.k = "str" THEN c.s
    ELSE IF c.k = "int" THEN Numeral(c.n)
    ELSE IF c.k = "float" THEN (IF c.n = 7 THEN "7.0" ELSE "0.0")
    ELSE IF c.k = "inf" THEN "inf"
    ELSE "nan"

(***************************************************************************)
(* Inputs.                                                                 *)
(***************************************************************************)
\* The Streamlit sessions of final_app.py.
Sessions == {"s1", "s2"}

\* What a user types into the form: name, description, severity.
FormInputs ==
    { [name |-> "", description |-> "N/A", severity |-> "Low"],
      [name |-> "bob", description |-> "deep", severity |-> "High"] }

\* Map positions a click can report (lat, lon), in the model's unit.
Clicks == { <<39, -84>>, <<40, -85>>, <<0, -84>> }

\* Ids a client of the HTTP API sends with a new request.
ApiIds == {"7", "007"}

\* The position and the timestamp a client of the HTTP API sends.
ApiClicks == { <<39, -84>> }
ApiTimes == { isoformat(2) }

\* The session whose handlers run in the one-at-a-time specification.
SeqSessions == {"s1"}

\* The one session of new_app.py and the one of mapillary_streamlit.py.
\* Browser and session state are kept per session of any of the apps.
NewAppSession == "n1"
MapillarySession == "m1"
StreamlitSessions == Sessions \cup {NewAppSession, MapillarySession}

\* Ids a client asks to upvote.
UpvoteIds == ApiIds \cup {isoformat(1), "no-such-id"}

(***************************************************************************)
(* State.                                                                  *)
(***************************************************************************)
VARIABLES
    file,           \* data/User_Requests.csv
    clicked_lat,    \* final_app st.session_state["clicked_lat"], per session
    clicked_lon,    \* final_app st.session_state["clicked_lon"], per session
    last_clicked,   \* the position last clicked on the session's map, as the browser holds it
    selected_lat,   \* new_app st.session_state.selected_lat
    selected_lon,   \* new_app st.session_state.selected_lon
    now,            \* the next reading of datetime.utcnow()
    last,           \* the last handler that ran, its input and its outcome
    pend,           \* per writer: the table it has read and is about to write
    acked,          \* how many appends have reported success so far
    feed,           \* data/Pothole Data.csv, the municipal feed
    loaded,         \* what the last run of a feed loader produced
    tick,           \* wall-clock time of the process, in units of five minutes
    mcache,         \* st.cache_data entries of fetch_mapillary_images, per key
    netAt,          \* per key: when the last outbound request was issued, what that call returned, whether the request failed
    fetched,        \* what the last call of fetch_mapillary_images did
    mapped,         \* what the last composition of a map layer did
    listed,         \* what the last render of the recent-requests preview showed
    st_view,        \* the st_folium component's center and zoom, per session
    map_center,     \* final_app st.session_state["map_center"], per session
    map_zoom,       \* final_app st.session_state["map_zoom"], per session
    view_before     \* map_center and map_zoom of the session when the last script run began

storeVars == <<file, now, last>>
sessVars == <<clicked_lat, clicked_lon, last_clicked>>
newAppVars == <<selected_lat, selected_lon>>
raceVars == <<pend, acked>>
feedVars == <<feed, loaded>>
imgVars == <<tick, mcache, netAt, fetched>>
\* What the store and session handlers never touch.
composeVars == <<mapped>>
listVars == <<listed>>
viewVars == <<st_view, map_center, map_zoom, view_before>>
sideVars == <<feedVars, imgVars, composeVars, listVars, viewVars>>
vars == <<file, clicked_lat, clicked_lon, last_clicked, selected_lat, selected_lon,
          now, last, pend, acked, feed, loaded, tick, mcache, netAt, fetched, mapped, listed,
          st_view, map_center, map_zoom, view_before>>

\* The writers whose read and write can be separated by another writer's:
\* the final_app sessions (one script thread each) and the API process.
Writers == Sessions \cup {"api"}

Idle == [active |-> FALSE, op |-> "", ok |-> FALSE, code |-> 0, req |-> [id |-> NaN],
         id |-> "", sel |-> <<None, None>>, read |-> Absent, write |-> Absent]

NoReq == [id |-> NaN]
NoSel == <<None, None>>

\* The record of a handler run: which handler, for which session, whether it
\* reported success, its HTTP status (0 for a Streamlit run), the row or id
\* it was given, the session's selection when the run began, and the store
\* file as it was before the run.
Outcome(op, sess, ok, code, req, id, sel, before) ==
    [op |-> op, sess |-> sess, ok |-> ok, code |-> code, req |-> req, id |-> id,
     sel |-> sel, before |-> before]

(***************************************************************************)
(* final_app.py / new_app.py: the request dict and its save.               *)
(***************************************************************************)
StreamlitCols == <<"id", "name", "description", "lat", "lon", "severity", "timestamp">>

\* The dict built on submit (final_app.py 330-338, new_app.py 273-281).
StreamlitReq(form, lat, lon, t1, t2) ==
    [id |-> StrCell(isoformat(t1)),
     name |-> StrCell(IF form.name # "" THEN form.name ELSE "anonymous"),
     description |-> StrCell(form.description),
     lat |-> FloatCell(lat),
     lon |-> FloatCell(lon),
     severity |-> StrCell(form.severity),
     timestamp |-> StrCell(isoformat(t2))]

\* pd.DataFrame([req]): one row, the dict's keys in insertion order.
DataFrame(req) == [cols |-> StreamlitCols, rows |-> <<req>>]

\* The file after the read-concat-write of a Streamlit submit; a file that
\* does not parse is replaced by the single new row.
save_user_request(f, req) ==
    IF f.exists /\ f.ok
    THEN to_csv(concat(read_csv(f), DataFrame(req)))
    ELSE to_csv(DataFrame(req))

(***************************************************************************)
(* fastapi_app.py: add_request and upvote_request.                         *)
(***************************************************************************)
ApiCols == <<"id", "name", "description", "severity", "lat", "lon", "timestamp", "rating">>

\* new_row of add_request (fastapi_app.py 72-81).
ApiRow(id, form, lat, lon, ts) ==
    [id |-> StrCell(id),
     name |-> StrCell(form.name),
     description |-> StrCell(form.description),
     severity |-> StrCell(form.severity),
     lat |-> FloatCell(lat),
     lon |-> FloatCell(lon),
     timestamp |-> StrCell(ts),
     rating |-> IntCell(0)]

\* The file after add_request's read-concat-write (fastapi_app.py 56-84).
add_request_file(f, row) ==
    LET df == IF f.exists THEN read_csv(f) ELSE [cols |-> ApiCols, rows |-> <<>>]
    IN  to_csv(concat(df, [cols |-> ApiCols, rows |-> <<row>>]))

\* df["rating"] = 0 when the column is missing (fastapi_app.py 101-102).
WithRating(df) ==
    IF "rating" \in Range(df.cols) THEN df
    ELSE [cols |-> Append(df.cols, "rating"),
          rows |-> [i \in DOMAIN df.rows |->
                     [c \in Range(df.cols) \cup {"rating"} |->
                        IF c = "rating" THEN IntCell(0) ELSE df.rows[i][c]]]]

\* rating + 1: NaN stays NaN.
Increment(c) == IF c.k = "nan" THEN c ELSE [c EXCEPT !.n = @ + 1]

\* upvote.id in df["id"].astype(str).values (fastapi_app.py 104).
IdFound(df, id) == \E i \in DOMAIN df.rows : astype_str(df.rows[i]["id"]) = id

\* df.loc[df["id"].astype(str) == upvote.id, "rating"] += 1 (fastapi_app.py 109).
Upvoted(df, id) ==
    [cols |-> df.cols,
     rows |-> [i \in DOMAIN df.rows |->
                IF astype_str(df.rows[i]["id"]) = id
                THEN [df.rows[i] EXCEPT !["rating"] = Increment(@)]
                ELSE df.rows[i]]]

\* upvote_request (fastapi_app.py 94-114): the HTTP status and the file it
\* leaves.  A file that does not parse raises inside the try: status 500.
\* A variant that saves the frame it read, rating column filled in, before
\* answering 404 for an id it did not find.
upvote_request_saving(f, id) ==
    IF ~f.exists THEN [code |-> 404, file |-> f]
    ELSE IF ~f.ok THEN [code |-> 500, file |-> f]
    ELSE LET df == WithRating(read_csv(f))
         IN  IF ~IdFound(df, id) THEN [code |-> 404, file |-> to_csv(df)]
             ELSE [code |-> 200, file |-> to_csv(Upvoted(df, id))]

upvote_request(f, id) ==
    IF ~f.exists THEN [code |-> 404, file |-> f]
    ELSE IF ~f.ok THEN [code |-> 500, file |-> f]
    ELSE LET df == WithRating(read_csv(f))
         IN  IF ~IdFound(df, id) THEN [code |-> 404, file |-> f]
             ELSE [code |-> 200, file |-> to_csv(Upvoted(df, id))]

(***************************************************************************)
(* The municipal feed loaders: final_app.py add_pothole_csv_layer and      *)
(* new_app.py load_pothole_data.                                           *)
(***************************************************************************)
\* str.upper() on the texts a status flag takes in the model.
\* A variant of the filter that compares the text as written.
UpperSkipped(s) == s

Upper(s) ==
    CASE s = "open" -> "OPEN"
      [] s = "Open" -> "OPEN"
      [] s = "closed" -> "CLOSED"
      [] s = "nan" -> "NAN"
      [] OTHER -> s

\* df.get("SR_STATUS_FLAG", "") is the column when the frame has it; without
\* it the default "" is a str, and "".astype raises AttributeError.
FlagColumnMissing(df) == "SR_STATUS_FLAG" \notin Range(df.cols)

\* df[df["SR_STATUS_FLAG"].astype(str).str.upper() == "OPEN"]
\* (final_app.py 116, new_app.py 36).
open_reqs(df) ==
    SelectSeq(df.rows, LAMBDA r : Upper(astype_str(r["SR_STATUS_FLAG"])) = "OPEN")

\* float(x) of a cell: a number, nan for a missing value, inf for an
\* infinite one, ValueError for a text that is no number.
FloatRaises(c) == c.k = "str" /\ c.s \notin IntTexts \cup InfTexts
FloatOf(c) ==
    IF c.k = "nan" THEN NaN
    ELSE IF c.k = "inf" \/ (c.k = "str" /\ c.s \in InfTexts) THEN Inf
    ELSE IF c.k = "str" THEN FloatCell(IntValue(c.s))
    ELSE FloatCell(c.n)

\* row.get(c, ''): the cell of column c, the empty string without the column.
Shown(row, c) == IF c \in DOMAIN row THEN row[c] ELSE StrCell("")

\* The fields both loaders read with row.get for the popup
\* (final_app.py 125-128, new_app.py 44-47).
GetFields == {"SR_NUMBER", "SR_STATUS", "SR_TYPE_DESC", "ADDRESS"}

\* The rows of the loop that reach the marker: both float() calls succeed
\* (final_app.py 119-123, new_app.py 39-51).
Converted(rows) ==
    LET good == SelectSeq(rows, LAMBDA r : ~FloatRaises(r["LATITUDE"])
                                           /\ ~FloatRaises(r["LONGITUDE"]))
    IN  [i \in DOMAIN good |->
            [sr |-> good[i]["SR_NUMBER"],
             lat |-> FloatOf(good[i]["LATITUDE"]),
             lon |-> FloatOf(good[i]["LONGITUDE"]),
             popup |-> [c \in GetFields |-> Shown(good[i], c)]]]

\* folium.CircleMarker(location=[lat, lon]) (final_app.py 130-138, outside
\* the try).  Whether the installed folium validates the location is not
\* fixed by the source: when it does, a NaN raises ValueError; when it does
\* not, the marker is added with the NaN.  An infinite value passes either.
MarkerRaises(p, validates) == validates /\ (p.lat.k = "nan" \/ p.lon.k = "nan")

NotLoaded == [loader |-> "none", raised |-> FALSE, warned |-> FALSE,
              open |-> {}, points |-> <<>>]

\* What a loader run leaves: which loader, whether an exception reached its
\* caller, whether it warned, the SR_NUMBERs that passed the filter, and the
\* points it produced.
Loaded(loader, raised, warned, rows, points) ==
    [loader |-> loader, raised |-> raised, warned |-> warned,
     open |-> {rows[i]["SR_NUMBER"].n : i \in DOMAIN rows}, points |-> points]

\* final_app.py add_pothole_csv_layer (107-139).
add_pothole_csv_layer(f, validates) ==
    IF ~f.exists THEN Loaded("final_app", FALSE, FALSE, <<>>, <<>>)
    ELSE IF ~f.ok THEN Loaded("final_app", FALSE, TRUE, <<>>, <<>>)
    ELSE LET df == read_csv(f)
         IN  IF FlagColumnMissing(df)
             THEN Loaded("final_app", TRUE, FALSE, <<>>, <<>>)
             ELSE LET rows == open_reqs(df)
                      pts == Converted(rows)
                  IN  IF \E i \in DOMAIN pts : MarkerRaises(pts[i], validates)
                      THEN Loaded("final_app", TRUE, FALSE, rows, <<>>)
                      ELSE Loaded("final_app", FALSE, FALSE, rows, pts)

\* new_app.py load_pothole_data (31-55): everything after the existence test
\* runs inside try/except Exception, which warns and returns [].
load_pothole_data(f) ==
    IF ~f.exists THEN Loaded("new_app", FALSE, FALSE, <<>>, <<>>)
    ELSE IF ~f.ok THEN Loaded("new_app", FALSE, TRUE, <<>>, <<>>)
    ELSE LET df == read_csv(f)
         IN  IF FlagColumnMissing(df)
             THEN Loaded("new_app", FALSE, TRUE, <<>>, <<>>)
             ELSE Loaded("new_app", FALSE, FALSE, open_reqs(df), Converted(open_reqs(df)))

(***************************************************************************)
(* Street imagery: fetch_mapillary_images behind st.cache_data(ttl=600)    *)
(* (final_app.py 86-101, new_app.py 77-90).                                *)
(***************************************************************************)
\* Python values the fetch can return: a list of items, None, a str, a dict.
PyList(items) == [t |-> "list", items |-> items]
PyNone == [t |-> "none", items |-> <<>>]
PyStr == [t |-> "str", items |-> <<>>]
PyDict == [t |-> "dict", items |-> <<>>]

\* Items of a "data" array: id is the item's "id" ("" when the key is
\* absent), geometry tells whether the item has the key, coords are the
\* geometry's coordinates, [lon, lat].
ImageItem(id, geometry, coords) == [id |-> id, geometry |-> geometry, coords |-> coords]
GoodItem == ImageItem("img1", TRUE, <<-84, 39>>)
ItemLists == {<<>>, <<GoodItem>>}

\* Items as the Graph API can return them: a second good one, one without
\* "geometry", one whose coordinates have one component, one without "id".
ItemKinds ==
    {GoodItem, ImageItem("img2", TRUE, <<-85, 40>>), ImageItem("img3", FALSE, <<>>),
     ImageItem("img4", TRUE, <<-84>>), ImageItem("", TRUE, <<-84, 39>>)}

\* What requests.get(url, timeout=15) and the body it returns can be.
Response(kind, data) == [kind |-> kind, data |-> data]
NoResponse == Response("none", PyNone)
Responses ==
    {Response(k, PyNone) : k \in {"network_error", "http_error", "not_json",
                                  "json_array", "json_null", "no_data_key"}}
    \cup {Response("json_object", d) : d \in {PyNone, PyStr, PyDict}}
    \cup {Response("json_object", PyList(items)) : items \in ItemLists}

\* The arguments the callers pass: MAPILLARY_BBOX, a token, MAPILLARY_LIMIT.
MAPILLARY_BBOX == "-84.64,39.045,-84.45,39.17"
MAPILLARY_LIMIT == 400
Tokens == {"", "tokA", "tokB"}
FetchKey(token) == [bbox |-> MAPILLARY_BBOX, token |-> token, limit |-> MAPILLARY_LIMIT]
FetchKeys == {FetchKey(token) : token \in Tokens}

\* The body of fetch_mapillary_images: whether it issues the request,
\* whether an exception leaves it, and the value it returns.
fetch_mapillary_images(key, resp) ==
    IF key.token = ""
    THEN [net |-> FALSE, raised |-> FALSE, value |-> PyList(<<>>)]
    ELSE IF resp.kind \in {"network_error", "http_error", "not_json"}
    THEN [net |-> TRUE, raised |-> FALSE, value |-> PyList(<<>>)]
    ELSE IF resp.kind \in {"json_array", "json_null"}
    THEN [net |-> TRUE, raised |-> FALSE, value |-> PyList(<<>>)]
    ELSE IF resp.kind = "no_data_key"
    THEN [net |-> TRUE, raised |-> FALSE, value |-> PyList(<<>>)]
    ELSE [net |-> TRUE, raised |-> FALSE, value |-> resp.data]

\* @st.cache_data(ttl=600): ten minutes are two units of tick.
CacheTtl == 2
NoEntry == [some |-> FALSE, value |-> PyNone, at |-> 0]

\* A variant whose entries are never live.
CacheHitNever(e, t) == FALSE

\* An entry is live until ttl has passed since it was stored.
CacheHit(e, t) == e.some /\ t < e.at + CacheTtl

\* A variant that keeps no entry for a call that returned the empty list.
StoredUnlessEmpty(e, r, t) ==
    IF r.value = PyList(<<>>) THEN e ELSE [some |-> TRUE, value |-> r.value, at |-> t]

\* The entry of a key after a call at t whose body ran and returned r:
\* st.cache_data stores whatever the body returned.
Stored(e, r, t) == [some |-> TRUE, value |-> r.value, at |-> t]

\* The responses that take the body to its except branch (final_app.py
\* 94-101): the request or raise_for_status raises, the body is not JSON,
\* or it is JSON with no .get.
FailedResponse(resp) ==
    resp.kind \in {"network_error", "http_error", "not_json", "json_array", "json_null"}

\* No outbound request has been issued for a key yet.
NoRequest == [at |-> -1, value |-> PyNone, failed |-> FALSE]

NotFetched == [called |-> FALSE, key |-> FetchKey(""), t |-> 0, hit |-> FALSE,
               net |-> FALSE, raised |-> FALSE, value |-> PyNone,
               resp |-> NoResponse, prevNet |-> NoRequest]

(***************************************************************************)
(* Map composition: the marker layers built from the fetched images.       *)
(***************************************************************************)
\* What a composition leaves: which function ran on which input, whether an
\* exception left it, and the ids of the markers of the layer it added.
Mapped(by, input, raised, markers) ==
    [by |-> by, input |-> input, raised |-> raised, markers |-> markers, popups |-> <<>>]
NotMapped == Mapped("none", PyNone, FALSE, <<>>)

\* The same for a layer of municipal rows: markers are SR_NUMBERs, popups
\* the fields shown for each marker.
MappedRows(by, input, raised, markers, popups) ==
    [by |-> by, input |-> input, raised |-> raised, markers |-> markers, popups |-> popups]

Ids(items) == [i \in DOMAIN items |-> items[i].id]

\* final_app.py add_mapillary_markers (170-214) on the fetched value: each
\* item is handled inside try/except; an item without two coordinates or
\* without id is skipped.  The for statement itself is outside the try:
\* None is not iterable, the elements of a str or a dict are strs, whose
\* .get raises inside the try.
add_mapillary_markers(data) ==
    IF data.t = "none" THEN Mapped("add_mapillary_markers", data, TRUE, <<>>)
    ELSE IF data.t # "list" THEN Mapped("add_mapillary_markers", data, FALSE, <<>>)
    ELSE Mapped("add_mapillary_markers", data, FALSE,
                Ids(SelectSeq(data.items,
                              LAMBDA it : it.geometry /\ Len(it.coords) >= 2 /\ it.id # "")))

\* new_app.py create_interactive_map (120-133): the comprehension keeps the
\* items that have "geometry" and indexes coordinates[1], coordinates[0]
\* and item["id"] with no try around it.
create_interactive_map(data) ==
    IF data.t = "none" THEN Mapped("create_interactive_map", data, TRUE, <<>>)
    ELSE IF data.t # "list" THEN Mapped("create_interactive_map", data, FALSE, <<>>)
    ELSE LET kept == SelectSeq(data.items, LAMBDA it : it.geometry)
         IN  IF \E i \in DOMAIN kept : Len(kept[i].coords) < 2 \/ kept[i].id = ""
             THEN Mapped("create_interactive_map", data, TRUE, <<>>)
             ELSE Mapped("create_interactive_map", data, FALSE, Ids(kept))

\* final_app.py 432: the municipal layer as add_pothole_csv_layer builds it.
final_pothole_layer(f, validates) ==
    LET l == add_pothole_csv_layer(f, validates)
    IN  MappedRows("final_app.add_pothole_csv_layer", f, l.raised,
                   [i \in DOMAIN l.points |-> l.points[i].sr.n],
                   [i \in DOMAIN l.points |-> l.points[i].popup])

\* app.py add_pothole_csv_layer (67-104).  The whole body is inside one
\* try/except that reports with st.error; the layer is added to the map
\* after the loop, so an exception anywhere leaves no marker at all.
\* row["..."] raises KeyError without the column; row.get does not.
IndexedFields == {"SR_NUMBER", "SR_STATUS", "SR_TYPE_DESC", "ADDRESS", "DATE_CREATED"}
OptionalFields == {"NEIGHBORHOOD", "NUM_POTHOLES"}

\* .str on a column that is not of strings raises AttributeError: a flag
\* column whose cells are all missing is float64.
StrAccessorRaises(df) ==
    /\ df.rows # <<>>
    /\ \A i \in DOMAIN df.rows : df.rows[i]["SR_STATUS_FLAG"].k # "str"

app_add_pothole_csv_layer(f, validates) ==
    LET none == MappedRows("app.add_pothole_csv_layer", f, FALSE, <<>>, <<>>)
    IN  IF ~f.exists \/ ~f.ok THEN none
        ELSE LET df == read_csv(f)
             IN  IF FlagColumnMissing(df) \/ StrAccessorRaises(df) THEN none
                 ELSE LET open == SelectSeq(df.rows, LAMBDA r :
                                      /\ r["SR_STATUS_FLAG"].k = "str"
                                      /\ Upper(r["SR_STATUS_FLAG"].s) = "OPEN")
                          shown == SelectSeq(open, LAMBDA r :
                                      r["LATITUDE"].k # "nan" /\ r["LONGITUDE"].k # "nan")
                          keyError == shown # <<>> /\ ~(IndexedFields \subseteq Range(df.cols))
                          badLocation == \E i \in DOMAIN shown :
                                            validates /\ (FloatRaises(shown[i]["LATITUDE"])
                                                          \/ FloatRaises(shown[i]["LONGITUDE"]))
                      IN  IF keyError \/ badLocation THEN none
                          ELSE MappedRows("app.add_pothole_csv_layer", f, FALSE,
                                  [i \in DOMAIN shown |-> shown[i]["SR_NUMBER"].n],
                                  [i \in DOMAIN shown |->
                                      [c \in IndexedFields \cup OptionalFields |->
                                          Shown(shown[i], c)]])

\* What a render of the preview leaves: the rows given to st.dataframe
\* (none when st.info is shown instead) and whether an exception left it.
NotListed == [done |-> FALSE, by |-> "none", raised |-> FALSE, rows |-> <<>>]

(***************************************************************************)
(* Initial state: no store file, no click, no selection.                   *)
(***************************************************************************)
NoClick == [some |-> FALSE, lat |-> 0, lng |-> 0]

\* final_app.py 23 and 371-374: the view a session starts with, (lat, lon)
\* in the model's unit and the zoom level.
CINCINNATI_COORDS == <<Some(39), Some(-84)>>
DEFAULT_ZOOM == 12

\* What st_folium returns under "center": None, or a dict with some of the
\* keys lat and lng.
NoCenter == [t |-> "none", keys |-> {}, lat |-> 0, lng |-> 0]
CenterDict(keys, lat, lng) == [t |-> "dict", keys |-> keys, lat |-> lat, lng |-> lng]

\* What st_folium returns under "zoom": None, or an int or a float, kept in
\* tenths of a zoom level.
NoZoom == [t |-> "none", tenths |-> 0]
ZoomNumber(t, tenths) == [t |-> t, tenths |-> tenths]

\* The component before the browser has reported a view.
NoView == [center |-> NoCenter, zoom |-> NoZoom]

Init ==
    /\ file = Absent
    /\ clicked_lat = [s \in StreamlitSessions |-> None]
    /\ clicked_lon = [s \in StreamlitSessions |-> None]
    /\ last_clicked = [s \in StreamlitSessions |-> NoClick]
    /\ selected_lat = None
    /\ selected_lon = None
    /\ now = 1
    /\ last = Outcome("none", "", FALSE, 0, NoReq, "", NoSel, Absent)
    /\ pend = [w \in Writers |-> Idle]
    /\ acked = 0
    /\ feed = Absent
    /\ loaded = NotLoaded
    /\ tick = 0
    /\ mcache = [k \in FetchKeys |-> NoEntry]
    /\ netAt = [k \in FetchKeys |-> NoRequest]
    /\ fetched = NotFetched
    /\ mapped = NotMapped
    /\ listed = NotListed
    /\ st_view = [s \in Sessions |-> NoView]
    /\ map_center = [s \in Sessions |-> CINCINNATI_COORDS]
    /\ map_zoom = [s \in Sessions |-> DEFAULT_ZOOM]
    /\ view_before = [center |-> CINCINNATI_COORDS, zoom |-> DEFAULT_ZOOM]

(***************************************************************************)
(* final_app.py, one script run.  The form block runs first (321-350),     *)
(* then the map is rendered and the st_folium value is folded into the     *)
(* session state (462-474).                                                *)
(***************************************************************************)
\* The guard of the form block: both coordinates truthy.
\* A variant of the submit guard that lets every submit through.
HasSelectionUnchecked(lat, lon) == TRUE

HasSelection(lat, lon) == Truthy(lat) /\ Truthy(lon)

\* A variant in which a click is taken only while nothing is selected.
AfterMapFirstClick(lc, lat, lon) ==
    IF lc.some /\ ~lat.some /\ ~lon.some
    THEN <<Some(lc.lat), Some(lc.lng)>>
    ELSE <<lat, lon>>

\* Session coordinates after the st_folium output handling, given the
\* component's last_clicked lc.
AfterMap(lc, lat, lon) ==
    IF lc.some /\ (lat # Some(lc.lat) \/ lon # Some(lc.lng))
    THEN <<Some(lc.lat), Some(lc.lng)>>
    ELSE <<lat, lon>>

\* The user clicks the map at c: the component reports it and the script
\* reruns with the form not submitted.
Click(s, c) ==
    LET lc == [some |-> TRUE, lat |-> c[1], lng |-> c[2]]
        after == AfterMap(lc, clicked_lat[s], clicked_lon[s])
    IN  /\ ~pend[s].active
        /\ last_clicked' = [last_clicked EXCEPT ![s] = lc]
        /\ clicked_lat' = [clicked_lat EXCEPT ![s] = after[1]]
        /\ clicked_lon' = [clicked_lon EXCEPT ![s] = after[2]]
        /\ last' = Outcome("click", s, TRUE, 0, NoReq, "", <<clicked_lat[s], clicked_lon[s]>>, file)
        /\ UNCHANGED <<file, now, selected_lat, selected_lon, pend, acked>>
        /\ UNCHANGED sideVars

\* The user presses "Submit repair request": the script reruns with
\* submitted = True.  The two utcnow() readings are now and now + 1.
Submit(s, form) ==
    LET req == StreamlitReq(form, clicked_lat[s].v, clicked_lon[s].v, now, now + 1)
        after == AfterMap(last_clicked[s], clicked_lat[s], clicked_lon[s])
    IN  /\ IF ~HasSelection(clicked_lat[s], clicked_lon[s])
           THEN /\ last' = Outcome("submit", s, FALSE, 0, NoReq, "", <<clicked_lat[s], clicked_lon[s]>>, file)
                /\ UNCHANGED <<file, now, acked>>
           ELSE /\ Len(file.rows) < MaxRows
                /\ now + 1 <= MaxClock
                /\ file' = save_user_request(file, req)
                /\ now' = now + 2
                /\ last' = Outcome("submit", s, TRUE, 0, req, "", <<clicked_lat[s], clicked_lon[s]>>, file)
                /\ acked' = acked + 1
        /\ clicked_lat' = [clicked_lat EXCEPT ![s] = after[1]]
        /\ clicked_lon' = [clicked_lon EXCEPT ![s] = after[2]]
        /\ UNCHANGED <<last_clicked, selected_lat, selected_lon, pend>>
        /\ UNCHANGED sideVars

(***************************************************************************)
(* new_app.py main(), the form block of one script run (267-289).          *)
(***************************************************************************)
NewAppSubmit(form) ==
    LET req == StreamlitReq(form, selected_lat.v, selected_lon.v, now, now + 1)
    IN  /\ IF ~HasSelection(selected_lat, selected_lon)
           THEN /\ last' = Outcome("new_app_submit", "n1", FALSE, 0, NoReq, "", <<selected_lat, selected_lon>>, file)
                /\ UNCHANGED <<file, now, selected_lat, selected_lon, acked>>
           ELSE /\ Len(file.rows) < MaxRows
                /\ now + 1 <= MaxClock
                /\ file' = save_user_request(file, req)
                /\ now' = now + 2
                /\ selected_lat' = None
                /\ selected_lon' = None
                /\ last' = Outcome("new_app_submit", "n1", TRUE, 0, req, "", <<selected_lat, selected_lon>>, file)
                /\ acked' = acked + 1
        /\ UNCHANGED <<sessVars, pend>>
        /\ UNCHANGED sideVars

(***************************************************************************)
(* fastapi_app.py handlers.                                                *)
(***************************************************************************)
\* POST /api/requests
AddRequest(id, form, c, ts) ==
    LET row == ApiRow(id, form, c[1], c[2], ts)
    IN  /\ ~pend["api"].active
        /\ Len(file.rows) < MaxRows
        /\ IF file.exists /\ ~file.ok
           THEN /\ last' = Outcome("add_request", "api", FALSE, 500, row, id, NoSel, file)
                /\ UNCHANGED <<file, acked>>
           ELSE /\ file' = add_request_file(file, row)
                /\ last' = Outcome("add_request", "api", TRUE, 200, row, id, NoSel, file)
                /\ acked' = acked + 1
        /\ UNCHANGED <<now, sessVars, newAppVars, pend>>
        /\ UNCHANGED sideVars

\* POST /api/upvote
Upvote(id) ==
    LET r == upvote_request(file, id)
    IN  /\ r.code = 200 =>
              \A i \in DOMAIN file.rows :
                  LET df == WithRating(read_csv(file))
                  IN  astype_str(df.rows[i]["id"]) = id => df.rows[i]["rating"].n < MaxRating
        /\ file' = r.file
        /\ last' = Outcome("upvote", "api", r.code = 200, r.code, NoReq, id, NoSel, file)
        /\ UNCHANGED <<now, sessVars, newAppVars, raceVars>>
        /\ UNCHANGED sideVars

(***************************************************************************)
(* The store under handlers that run one at a time.                        *)
(***************************************************************************)
Next ==
    \/ \E s \in SeqSessions, c \in Clicks : Click(s, c)
    \/ \E s \in SeqSessions, form \in FormInputs : Submit(s, form)
    \/ \E form \in FormInputs : NewAppSubmit(form)
    \/ \E id \in ApiIds, form \in FormInputs, c \in ApiClicks, ts \in ApiTimes :
          AddRequest(id, form, c, ts)
    \/ \E id \in UpvoteIds : Upvote(id)

Spec == Init /\ [][Next]_vars

(***************************************************************************)
(* The store under writers that interleave.  Each writer reads the whole   *)
(* file, builds the new table in memory and then rewrites the file; no     *)
(* lock is held in between (final_app.py 339-349, fastapi_app.py 100-110), *)
(* so another writer's read or write can fall between the two.  The        *)
(* handlers of the one API process run one at a time on its event loop.    *)
(***************************************************************************)
\* The clicks and the form of the sessions that race.
RaceClicks == { <<39, -84>> }
RaceForm == [name |-> "bob", description |-> "deep", severity |-> "High"]
RaceApiIds == {"7"}

\* A session's submit passes the guard, builds req and reads the file
\* (final_app.py 322-348).
BeginSubmit(s, form) ==
    LET req == StreamlitReq(form, clicked_lat[s].v, clicked_lon[s].v, now, now + 1)
    IN  /\ ~pend[s].active
        /\ HasSelection(clicked_lat[s], clicked_lon[s])
        /\ Len(file.rows) < MaxRows
        /\ now + 1 <= MaxClock
        /\ pend' = [pend EXCEPT ![s] =
                       [active |-> TRUE, op |-> "submit", ok |-> TRUE, code |-> 0,
                        req |-> req, id |-> "",
                        sel |-> <<clicked_lat[s], clicked_lon[s]>>,
                        read |-> file, write |-> save_user_request(file, req)]]
        /\ now' = now + 2
        /\ UNCHANGED <<file, last, acked, sessVars, newAppVars>>
        /\ UNCHANGED sideVars

\* A variant in which a writer rebuilds its table from the file as it is at
\* the moment of the write.
WrittenSerialized(p, current) ==
    IF p.op = "submit" THEN save_user_request(current, p.req)
    ELSE upvote_request(current, p.id).file

\* What a writer's to_csv leaves in the file: the table it built from its
\* own read, whatever the file holds by now.
Written(p, current) == p.write

\* The session's df_new.to_csv (final_app.py 349), the success message and
\* the rest of the script run.
CommitSubmit(s) ==
    LET after == AfterMap(last_clicked[s], clicked_lat[s], clicked_lon[s])
    IN  /\ pend[s].active
        /\ pend[s].op = "submit"
        /\ file' = Written(pend[s], file)
        /\ last' = Outcome("submit", s, TRUE, 0, pend[s].req, "", pend[s].sel, pend[s].read)
        /\ acked' = acked + 1
        /\ pend' = [pend EXCEPT ![s] = Idle]
        /\ clicked_lat' = [clicked_lat EXCEPT ![s] = after[1]]
        /\ clicked_lon' = [clicked_lon EXCEPT ![s] = after[2]]
        /\ UNCHANGED <<now, last_clicked, newAppVars>>
        /\ UNCHANGED sideVars

\* upvote_request finds the id and increments in memory (fastapi_app.py 100-109).
BeginUpvote(id) ==
    LET r == upvote_request(file, id)
        df == WithRating(read_csv(file))
    IN  /\ ~pend["api"].active
        /\ r.code = 200
        /\ \A i \in DOMAIN file.rows :
              astype_str(df.rows[i]["id"]) = id => df.rows[i]["rating"].n < MaxRating
        /\ pend' = [pend EXCEPT !["api"] =
                       [active |-> TRUE, op |-> "upvote", ok |-> TRUE, code |-> 200,
                        req |-> NoReq, id |-> id, sel |-> NoSel,
                        read |-> file, write |-> r.file]]
        /\ UNCHANGED <<file, last, acked, now, sessVars, newAppVars>>
        /\ UNCHANGED sideVars

\* upvote_request's df.to_csv and its response (fastapi_app.py 110-112).
CommitUpvote ==
    /\ pend["api"].active
    /\ pend["api"].op = "upvote"
    /\ file' = Written(pend["api"], file)
    /\ last' = Outcome("upvote", "api", TRUE, 200, NoReq, pend["api"].id, NoSel,
                       pend["api"].read)
    /\ pend' = [pend EXCEPT !["api"] = Idle]
    /\ UNCHANGED <<acked, now, sessVars, newAppVars>>
    /\ UNCHANGED sideVars

NextRace ==
    \/ \E s \in Sessions, c \in RaceClicks : Click(s, c)
    \/ \E s \in Sessions : BeginSubmit(s, RaceForm)
    \/ \E s \in Sessions : CommitSubmit(s)
    \/ \E id \in RaceApiIds, c \in ApiClicks, ts \in ApiTimes : AddRequest(id, RaceForm, c, ts)
    \/ \E id \in UpvoteIds : BeginUpvote(id)
    \/ CommitUpvote

SpecRace == Init /\ [][NextRace]_vars

(***************************************************************************)
(* The feed loaders, run on every feed of the bounded family below.        *)
(***************************************************************************)
\* Texts of SR_STATUS_FLAG; NaN is an empty or missing field.
FlagCells == {StrCell("OPEN"), StrCell("open"), StrCell("Open"), StrCell("CLOSED"), NaN}

\* Texts of LATITUDE and LONGITUDE.
LatCells == {FloatCell(39), StrCell("not_a_number"), StrCell("inf"), NaN}
LonCells == {FloatCell(-84), NaN}

FeedCols(hasFlag) ==
    IF hasFlag THEN <<"SR_NUMBER", "SR_STATUS_FLAG", "LATITUDE", "LONGITUDE">>
    ELSE <<"SR_NUMBER", "LATITUDE", "LONGITUDE">>

\* The feed file with n lines whose flags, latitudes and longitudes are
\* given by fl, la and lo; SR_NUMBER is the line number.
FeedFile(hasFlag, n, fl, la, lo) ==
    [exists |-> TRUE, ok |-> TRUE, cols |-> FeedCols(hasFlag),
     rows |-> [i \in 1..n |->
                [c \in Range(FeedCols(hasFlag)) |->
                    CASE c = "SR_NUMBER" -> IntCell(i)
                      [] c = "SR_STATUS_FLAG" -> fl[i]
                      [] c = "LATITUDE" -> la[i]
                      [] OTHER -> lo[i]]]]

\* The feed of the specification's example: OPEN, CLOSED, open, "" and a
\* missing flag, all with numeric coordinates.
ExampleFeed ==
    FeedFile(TRUE, 5,
             <<StrCell("OPEN"), StrCell("CLOSED"), StrCell("open"), NaN, NaN>>,
             [i \in 1..5 |-> FloatCell(39)], [i \in 1..5 |-> FloatCell(-84)])

InitFeed ==
    /\ file = Absent
    /\ clicked_lat = [s \in StreamlitSessions |-> None]
    /\ clicked_lon = [s \in StreamlitSessions |-> None]
    /\ last_clicked = [s \in StreamlitSessions |-> NoClick]
    /\ selected_lat = None
    /\ selected_lon = None
    /\ now = 1
    /\ last = Outcome("none", "", FALSE, 0, NoReq, "", NoSel, Absent)
    /\ pend = [w \in Writers |-> Idle]
    /\ acked = 0
    /\ loaded = NotLoaded
    /\ tick = 0
    /\ mcache = [k \in FetchKeys |-> NoEntry]
    /\ netAt = [k \in FetchKeys |-> NoRequest]
    /\ fetched = NotFetched
    /\ mapped = NotMapped
    /\ listed = NotListed
    /\ st_view = [s \in Sessions |-> NoView]
    /\ map_center = [s \in Sessions |-> CINCINNATI_COORDS]
    /\ map_zoom = [s \in Sessions |-> DEFAULT_ZOOM]
    /\ view_before = [center |-> CINCINNATI_COORDS, zoom |-> DEFAULT_ZOOM]
    /\ \/ feed \in {Absent, Malformed, ExampleFeed}
       \/ \E hasFlag \in BOOLEAN, n \in 1..MaxFeedRows :
             \E fl \in [1..n -> FlagCells], la \in [1..n -> LatCells],
                lo \in [1..n -> LonCells] :
                 feed = FeedFile(hasFlag, n, fl, la, lo)

\* final_app.py 432: one script run adds the feed layer to the map.
LoadFinalApp ==
    /\ \E validates \in BOOLEAN : loaded' = add_pothole_csv_layer(feed, validates)
    /\ UNCHANGED <<feed, storeVars, sessVars, newAppVars, raceVars, viewVars, imgVars, composeVars, listVars>>

\* new_app.py 241: main() loads the feed.
LoadNewApp ==
    /\ loaded' = load_pothole_data(feed)
    /\ UNCHANGED <<feed, storeVars, sessVars, newAppVars, raceVars, viewVars, imgVars, composeVars, listVars>>

NextFeed == LoadFinalApp \/ LoadNewApp

SpecFeed == InitFeed /\ [][NextFeed]_vars

(***************************************************************************)
(* Calls of the cached fetch and the passing of time.                      *)
(***************************************************************************)
\* One call fetch_mapillary_images(bbox, token, limit) from a script run
\* (final_app.py 172, new_app.py 243).  st.cache_data returns the stored
\* value of a live entry; otherwise it runs the body and stores what the
\* body returned.  resp is what the network would answer.
Fetch(key, resp) ==
    LET e == mcache[key]
        hit == CacheHit(e, tick)
        r == fetch_mapillary_images(key, resp)
    IN  /\ fetched' = [called |-> TRUE, key |-> key, t |-> tick, hit |-> hit,
                       net |-> ~hit /\ r.net,
                       raised |-> ~hit /\ r.raised,
                       value |-> IF hit THEN e.value ELSE r.value,
                       resp |-> IF ~hit /\ r.net THEN resp ELSE NoResponse,
                       prevNet |-> netAt[key]]
        /\ mcache' = IF hit \/ r.raised THEN mcache
                     ELSE [mcache EXCEPT ![key] = Stored(e, r, tick)]
        /\ netAt' = IF ~hit /\ r.net
                    THEN [netAt EXCEPT ![key] = [at |-> tick, value |-> r.value,
                                                 failed |-> FailedResponse(resp)]]
                    ELSE netAt
        /\ UNCHANGED <<tick, storeVars, sessVars, newAppVars, raceVars, viewVars, feedVars, composeVars, listVars>>

\* Five minutes pass.
Tick ==
    /\ tick < MaxTick
    /\ tick' = tick + 1
    /\ UNCHANGED <<mcache, netAt, fetched, storeVars, sessVars, newAppVars, raceVars, viewVars, feedVars,
                   composeVars, listVars>>

NextImagery ==
    \/ \E key \in FetchKeys, resp \in Responses : Fetch(key, resp)
    \/ Tick

SpecImagery == Init /\ [][NextImagery]_vars

(***************************************************************************)
(* Composition of the imagery layer from every bounded list of items.      *)
(***************************************************************************)
ImageData ==
    {PyNone, PyStr, PyDict}
    \cup UNION {{PyList(items) : items \in [1..n -> ItemKinds]} : n \in 0..MaxItems}

\* final_app.py 437: add_mapillary_markers on what the fetch returned.
ComposeFinalApp(data) ==
    /\ mapped' = add_mapillary_markers(data)
    /\ UNCHANGED <<storeVars, sessVars, newAppVars, raceVars, viewVars, feedVars, imgVars, listVars>>

\* new_app.py 328: create_interactive_map on what the fetch returned.
ComposeNewApp(data) ==
    /\ mapped' = create_interactive_map(data)
    /\ UNCHANGED <<storeVars, sessVars, newAppVars, raceVars, viewVars, feedVars, imgVars, listVars>>

\* Municipal feeds for the popups: OPEN or CLOSED rows, a latitude that is
\* a number or the text not_a_number, and popup columns that are all there,
\* all absent, or lack DATE_CREATED or NEIGHBORHOOD.
PopupCols == <<"SR_STATUS", "SR_TYPE_DESC", "ADDRESS", "DATE_CREATED", "NEIGHBORHOOD",
               "NUM_POTHOLES">>
PopupColSets ==
    {Range(PopupCols), {}} \cup {Range(PopupCols) \ {c} : c \in {"DATE_CREATED", "NEIGHBORHOOD"}}

WithColumns(f, present) ==
    LET cols == f.cols \o SelectSeq(PopupCols, LAMBDA c : c \in present)
    IN  [f EXCEPT !.cols = cols,
                  !.rows = [i \in DOMAIN f.rows |->
                              [c \in Range(cols) |->
                                  IF c \in DOMAIN f.rows[i] THEN f.rows[i][c]
                                  ELSE StrCell("x")]]]

PopupFeeds ==
    UNION {{WithColumns(FeedFile(TRUE, n, fl, la, [i \in 1..n |-> FloatCell(-84)]), present) :
              fl \in [1..n -> {StrCell("OPEN"), StrCell("CLOSED")}],
              la \in [1..n -> {FloatCell(39), StrCell("not_a_number")}],
              present \in PopupColSets} : n \in 1..MaxFeedRows}

\* final_app.py 432.
ComposeFinalPotholes(f, validates) ==
    /\ mapped' = final_pothole_layer(f, validates)
    /\ UNCHANGED <<storeVars, sessVars, newAppVars, raceVars, viewVars, feedVars, imgVars, listVars>>

\* app.py 262-264.
ComposeAppPotholes(f, validates) ==
    /\ mapped' = app_add_pothole_csv_layer(f, validates)
    /\ UNCHANGED <<storeVars, sessVars, newAppVars, raceVars, viewVars, feedVars, imgVars, listVars>>

NextCompose ==
    \/ \E data \in ImageData : ComposeFinalApp(data)
    \/ \E data \in ImageData : ComposeNewApp(data)
    \/ \E f \in PopupFeeds, validates \in BOOLEAN : ComposeFinalPotholes(f, validates)
    \/ \E f \in PopupFeeds, validates \in BOOLEAN : ComposeAppPotholes(f, validates)

SpecCompose == Init /\ [][NextCompose]_vars

(***************************************************************************)
(* The recent-requests preview (final_app.py 354-365, new_app.py 293-304): *)
(* read_csv, sort_values("timestamp", ascending=False), head(10); any      *)
(* exception, or no file, shows no rows.                                   *)
(***************************************************************************)
PreviewLimit == 10

\* Sort key of a timestamp cell; missing timestamps sort last.
TsKey(c) == IF c.k = "str" THEN TsRank(c.s) ELSE 0

RECURSIVE InsertDesc(_, _)
InsertDesc(r, sorted) ==
    IF sorted = <<>> THEN <<r>>
    ELSE IF TsKey(Head(sorted)["timestamp"]) >= TsKey(r["timestamp"])
         THEN <<Head(sorted)>> \o InsertDesc(r, Tail(sorted))
         ELSE <<r>> \o sorted

RECURSIVE SortDesc(_)
SortDesc(rows) ==
    IF rows = <<>> THEN <<>>
    ELSE InsertDesc(rows[Len(rows)], SortDesc(SubSeq(rows, 1, Len(rows) - 1)))

\* A variant without .head(10).
list_recent_all(f) ==
    IF ~f.exists \/ ~f.ok \/ "timestamp" \notin Range(f.cols) THEN <<>>
    ELSE SortDesc(read_csv(f).rows)

list_recent(f) ==
    IF ~f.exists \/ ~f.ok \/ "timestamp" \notin Range(f.cols) THEN <<>>
    ELSE LET sorted == SortDesc(read_csv(f).rows)
         IN  SubSeq(sorted, 1, Min(PreviewLimit, Len(sorted)))

(***************************************************************************)
(* The preview rendered on store files of up to MaxListRows rows.          *)
(***************************************************************************)
ListIds == <<"a", "b", "c", "d", "e", "f", "g", "h", "i", "j", "k", "l", "m", "n">>

\* The timestamp of line i: the clock readings taken in the order given by
\* offset and step, so that files come sorted, reversed, shuffled and with
\* repeated timestamps; blank leaves the first line's timestamp empty.
ListTimestamp(i, offset, step, blank) ==
    IF blank /\ i = 1 THEN ""
    ELSE isoformat(((offset + i * step) % Len(IsoTable)) + 1)

\* A store file of n rows appended through add_request.
ListFile(n, offset, step, blank) ==
    to_csv([cols |-> ApiCols,
            rows |-> [i \in 1..n |->
                        ApiRow(ListIds[i], [name |-> "bob", description |-> "deep",
                                            severity |-> "High"],
                               39, -84, ListTimestamp(i, offset, step, blank))]])

\* A file whose header has no timestamp column.
WithoutTimestamp(f) ==
    LET cols == SelectSeq(f.cols, LAMBDA c : c # "timestamp")
    IN  [f EXCEPT !.cols = cols,
                  !.rows = [i \in DOMAIN f.rows |-> [c \in Range(cols) |-> f.rows[i][c]]]]

InitListing ==
    /\ clicked_lat = [s \in StreamlitSessions |-> None]
    /\ clicked_lon = [s \in StreamlitSessions |-> None]
    /\ last_clicked = [s \in StreamlitSessions |-> NoClick]
    /\ selected_lat = None
    /\ selected_lon = None
    /\ now = 1
    /\ last = Outcome("none", "", FALSE, 0, NoReq, "", NoSel, Absent)
    /\ pend = [w \in Writers |-> Idle]
    /\ acked = 0
    /\ feed = Absent
    /\ loaded = NotLoaded
    /\ tick = 0
    /\ mcache = [k \in FetchKeys |-> NoEntry]
    /\ netAt = [k \in FetchKeys |-> NoRequest]
    /\ fetched = NotFetched
    /\ mapped = NotMapped
    /\ listed = NotListed
    /\ st_view = [s \in Sessions |-> NoView]
    /\ map_center = [s \in Sessions |-> CINCINNATI_COORDS]
    /\ map_zoom = [s \in Sessions |-> DEFAULT_ZOOM]
    /\ view_before = [center |-> CINCINNATI_COORDS, zoom |-> DEFAULT_ZOOM]
    /\ \/ file \in {Absent, Malformed}
       \/ \E n \in 0..MaxListRows, offset \in 0..3, step \in {1, 3, 7}, blank \in BOOLEAN :
             \/ file = ListFile(n, offset, step, blank)
             \/ file = WithoutTimestamp(ListFile(n, offset, step, blank))

\* final_app.py 352-365: the preview of one script run.
PreviewFinalApp ==
    /\ listed' = [done |-> TRUE, by |-> "final_app", raised |-> FALSE,
                  rows |-> list_recent(file)]
    /\ UNCHANGED <<storeVars, sessVars, newAppVars, raceVars, viewVars, feedVars, imgVars, composeVars>>

\* new_app.py 291-304: the same preview in main().
PreviewNewApp ==
    /\ listed' = [done |-> TRUE, by |-> "new_app", raised |-> FALSE,
                  rows |-> list_recent(file)]
    /\ UNCHANGED <<storeVars, sessVars, newAppVars, raceVars, viewVars, feedVars, imgVars, composeVars>>

NextListing == PreviewFinalApp \/ PreviewNewApp

SpecListing == InitListing /\ [][NextListing]_vars

(***************************************************************************)
(* final_app.py, the view of the map.  Every script run builds the map at  *)
(* the session's map_center and map_zoom (377-382) and, after st_folium    *)
(* has returned, folds the component's center and zoom into the session    *)
(* state (476-485).  The component keeps its value between runs; a change  *)
(* of it in the browser makes the script run again.                        *)
(***************************************************************************)
\* 480: (center.get("lat"), center.get("lng")).
new_center(center) ==
    << IF "lat" \in center.keys THEN Some(center.lat) ELSE None,
       IF "lng" \in center.keys THEN Some(center.lng) ELSE None >>

\* int(zoom) of a zoom level that is not negative.
int(zoom) == zoom.tenths \div 10

\* A variant that keeps no view: every run shows the default one, as app.py
\* does (app.py 192-197).
AfterViewDefault(st, center, zoom) ==
    [center |-> CINCINNATI_COORDS, zoom |-> DEFAULT_ZOOM]

\* The session's map_center and map_zoom after the st_folium output
\* handling, given the component's value st.
AfterView(st, center, zoom) ==
    [center |-> IF st.center.t = "dict" /\ st.center.keys # {}
                   /\ center # new_center(st.center)
                THEN new_center(st.center)
                ELSE center,
     zoom |-> IF st.zoom.t \in {"int", "float"} /\ zoom # int(st.zoom)
              THEN int(st.zoom)
              ELSE zoom]

\* One script run of session s: the form block with the given submitted
\* flag, then the st_folium output handling with the component reporting
\* last_clicked lc and the view st.
Run(s, op, submitted, form, lc, st) ==
    LET req == StreamlitReq(form, clicked_lat[s].v, clicked_lon[s].v, now, now + 1)
        sel == AfterMap(lc, clicked_lat[s], clicked_lon[s])
        view == AfterView(st, map_center[s], map_zoom[s])
    IN  /\ IF ~submitted
           THEN /\ last' = Outcome(op, s, TRUE, 0, NoReq, "", <<clicked_lat[s], clicked_lon[s]>>, file)
                /\ UNCHANGED <<file, now, acked>>
           ELSE IF ~HasSelection(clicked_lat[s], clicked_lon[s])
           THEN /\ last' = Outcome(op, s, FALSE, 0, NoReq, "", <<clicked_lat[s], clicked_lon[s]>>, file)
                /\ UNCHANGED <<file, now, acked>>
           ELSE /\ Len(file.rows) < MaxRows
                /\ now + 1 <= MaxClock
                /\ file' = save_user_request(file, req)
                /\ now' = now + 2
                /\ last' = Outcome(op, s, TRUE, 0, req, "", <<clicked_lat[s], clicked_lon[s]>>, file)
                /\ acked' = acked + 1
        /\ last_clicked' = [last_clicked EXCEPT ![s] = lc]
        /\ st_view' = [st_view EXCEPT ![s] = st]
        /\ clicked_lat' = [clicked_lat EXCEPT ![s] = sel[1]]
        /\ clicked_lon' = [clicked_lon EXCEPT ![s] = sel[2]]
        /\ map_center' = [map_center EXCEPT ![s] = view.center]
        /\ map_zoom' = [map_zoom EXCEPT ![s] = view.zoom]
        /\ view_before' = [center |-> map_center[s], zoom |-> map_zoom[s]]
        /\ UNCHANGED <<selected_lat, selected_lon, pend>>
        /\ UNCHANGED <<feedVars, imgVars, composeVars, listVars>>

\* The views the browser reports after a pan or a zoom.
CenterSignals ==
    { NoCenter, CenterDict({}, 0, 0), CenterDict({"lat", "lng"}, 39, -84),
      CenterDict({"lat", "lng"}, 40, -85) }
ZoomSignals == { NoZoom, ZoomNumber("int", 120), ZoomNumber("float", 135), ZoomNumber("int", 130) }

\* The map positions clicked and the form submitted in the view specification.
ViewClicks == { <<39, -84>>, <<40, -85>> }
ViewForm == [name |-> "bob", description |-> "deep", severity |-> "High"]

\* The user clicks the map at c: the component's last_clicked changes, its
\* center and zoom do not.
ViewClick(s, c) ==
    /\ ~pend[s].active
    /\ Run(s, "click", FALSE, ViewForm, [some |-> TRUE, lat |-> c[1], lng |-> c[2]], st_view[s])

\* The user pans or zooms the map: the component's center or zoom changes,
\* its last_clicked does not.
ViewPanZoom(s, center, zoom) ==
    /\ [center |-> center, zoom |-> zoom] # st_view[s]
    /\ Run(s, "pan_zoom", FALSE, ViewForm, last_clicked[s], [center |-> center, zoom |-> zoom])

\* The user presses "Submit repair request": the component's value is what
\* it was.
ViewSubmit(s) ==
    /\ ~pend[s].active
    /\ Run(s, "submit", TRUE, ViewForm, last_clicked[s], st_view[s])

\* Any other rerun of the script: nothing in the browser has changed.
ViewRender(s) ==
    /\ ~pend[s].active
    /\ Run(s, "render", FALSE, ViewForm, last_clicked[s], st_view[s])

NextView ==
    \/ \E s \in SeqSessions, c \in ViewClicks : ViewClick(s, c)
    \/ \E s \in SeqSessions, center \in CenterSignals, zoom \in ZoomSignals :
          ViewPanZoom(s, center, zoom)
    \/ \E s \in SeqSessions : ViewSubmit(s)
    \/ \E s \in SeqSessions : ViewRender(s)

SpecView == Init /\ [][NextView]_vars

(***************************************************************************)
(* new_app.py and mapillary_streamlit.py: what a click on the map does on  *)
(* the server.  Both apps draw the map with components.html, which returns *)
(* nothing to the script.  new_app's page script posts the click to the    *)
(* parent window and a second page script forwards it to a URL of the      *)
(* Streamlit server (208-230); no code of the app receives it.             *)
(***************************************************************************)
\* A variant in which the forwarded click is stored in the session state.
handle_js_messages_stored(lat, lon, c) == <<Some(c[1]), Some(c[2])>>

\* new_app.py: selected_lat / selected_lon after a click message at c.
handle_js_messages(lat, lon, c) == <<lat, lon>>

\* new_app.py: the user clicks the map at c.  The browser moves its marker
\* (194-198); the script does not rerun.
NewAppMapClick(c) ==
    LET after == handle_js_messages(selected_lat, selected_lon, c)
    IN  /\ last_clicked' = [last_clicked EXCEPT ![NewAppSession] =
                                [some |-> TRUE, lat |-> c[1], lng |-> c[2]]]
        /\ selected_lat' = after[1]
        /\ selected_lon' = after[2]
        /\ last' = Outcome("new_app_click", NewAppSession, TRUE, 0, NoReq, "",
                           <<selected_lat, selected_lon>>, file)
        /\ UNCHANGED <<file, now, clicked_lat, clicked_lon, raceVars>>
        /\ UNCHANGED sideVars

\* mapillary_streamlit.py 33-41: the dict built on submit.
MapillaryReq(form, lat, lon, t1, t2) ==
    [id |-> StrCell(isoformat(t1)),
     name |-> StrCell(form.name),
     description |-> StrCell(form.description),
     lat |-> FloatCell(lat),
     lon |-> FloatCell(lon),
     severity |-> StrCell(form.severity),
     timestamp |-> StrCell(isoformat(t2))]

\* mapillary_streamlit.py 42-47: read, concat, write, with no try around
\* the read.
mapillary_save(f, req) ==
    IF f.exists /\ ~f.ok THEN [raised |-> TRUE, file |-> f]
    ELSE IF f.exists THEN [raised |-> FALSE, file |-> to_csv(concat(read_csv(f), DataFrame(req)))]
    ELSE [raised |-> FALSE, file |-> to_csv(DataFrame(req))]

\* mapillary_streamlit.py: the user clicks the map of map.html at c.  The
\* page is shown by components.html (55-58); the script does not rerun.
MapillaryMapClick(c) ==
    /\ last_clicked' = [last_clicked EXCEPT ![MapillarySession] =
                            [some |-> TRUE, lat |-> c[1], lng |-> c[2]]]
    /\ last' = Outcome("mapillary_click", MapillarySession, TRUE, 0, NoReq, "",
                       <<clicked_lat[MapillarySession], clicked_lon[MapillarySession]>>, file)
    /\ UNCHANGED <<file, now, clicked_lat, clicked_lon, newAppVars, raceVars>>
    /\ UNCHANGED sideVars

\* mapillary_streamlit.py 23-51: one script run with the form submitted.
MapillarySubmit(form) ==
    LET lat == clicked_lat[MapillarySession]
        lon == clicked_lon[MapillarySession]
        r == mapillary_save(file, MapillaryReq(form, lat.v, lon.v, now, now + 1))
    IN  /\ IF ~HasSelection(lat, lon)
           THEN /\ last' = Outcome("mapillary_submit", MapillarySession, FALSE, 0, NoReq, "",
                                   <<lat, lon>>, file)
                /\ UNCHANGED <<file, now, acked>>
           ELSE /\ Len(file.rows) < MaxRows
                /\ now + 1 <= MaxClock
                /\ file' = r.file
                /\ now' = now + 2
                /\ last' = Outcome("mapillary_submit", MapillarySession, ~r.raised, 0,
                                   MapillaryReq(form, lat.v, lon.v, now, now + 1), "",
                                   <<lat, lon>>, file)
                /\ acked' = IF r.raised THEN acked ELSE acked + 1
        /\ UNCHANGED <<sessVars, newAppVars, pend>>
        /\ UNCHANGED sideVars

\* Map positions clicked in the two apps.
NewAppClicks == { <<39, -84>>, <<0, -84>> }

\* The two apps beside the HTTP API, which writes the same store.
NextNewApp ==
    \/ \E c \in NewAppClicks : NewAppMapClick(c)
    \/ \E form \in FormInputs : NewAppSubmit(form)
    \/ \E c \in NewAppClicks : MapillaryMapClick(c)
    \/ \E form \in FormInputs : MapillarySubmit(form)
    \/ \E id \in ApiIds, form \in FormInputs, c \in ApiClicks, ts \in ApiTimes :
          AddRequest(id, form, c, ts)

SpecNewApp == Init /\ [][NextNewApp]_vars

(***************************************************************************)
(* Comparing values.                                                       *)
(***************************************************************************)
IsNumber(c) == c.k \in {"int", "float"}

\* A value handed to the store and a cell read back from it are the same
\* value up to representation: equal numbers (0 and 0.0), equal strings, a
\* string of digits and the integer it spells, the empty string and an empty
\* field.
SameValue(given, got) ==
    \/ given = got
    \/ IsNumber(given) /\ IsNumber(got) /\ given.n = got.n
    \/ given.k = "str" /\ given.s = "" /\ got.k = "nan"
    \/ given.k = "str" /\ got.k = "int" /\ given.s = Numeral(got.n)

\* Two text cells of the file hold the same value: the same text, or the
\* same number written as an integer and as a float.
SameText(a, b) == a = b \/ (IsNumber(a) /\ IsNumber(b) /\ a.n = b.n)

RequestFields == {"id", "name", "description", "severity", "lat", "lon", "timestamp"}

Appends == {"submit", "new_app_submit", "add_request"}
Submits == {"submit", "new_app_submit"}

(***************************************************************************)
(* C1.  Round trip: after a successful append of request r, with nothing   *)
(* run since, the recent-requests listing holds a record whose id, name,   *)
(* description, severity, lat, lon and timestamp are those of r and whose  *)
(* rating is 0.                                                            *)
(***************************************************************************)
C1_RoundTrip ==
    (last.op \in Appends /\ last.ok) =>
        \E i \in DOMAIN list_recent(file) :
            LET rec == list_recent(file)[i]
            IN  /\ \A c \in RequestFields : SameValue(last.req[c], rec[c])
                /\ "rating" \in DOMAIN rec
                /\ IsNumber(rec["rating"])
                /\ rec["rating"].n = 0

(***************************************************************************)
(* C2.  For every id stored in the file, two successive upvotes of it both *)
(* report success and leave the rating of that row exactly 2 above what it *)
(* was (a row without a rating counts from 0).                             *)
(***************************************************************************)
\* The id of a stored row, as the text in the file.
StoredId(c) == IF c.k = "int" THEN Numeral(c.n) ELSE c.s

RatingBefore(f, i) ==
    IF "rating" \in Range(f.cols) /\ IsNumber(f.rows[i]["rating"])
    THEN f.rows[i]["rating"].n
    ELSE 0

C2_TwoUpvotesAddTwo ==
    (file.exists /\ file.ok) =>
        \A i \in DOMAIN file.rows :
            LET id == StoredId(file.rows[i]["id"])
                r1 == upvote_request(file, id)
                r2 == upvote_request(r1.file, id)
            IN  /\ r1.code = 200
                /\ r2.code = 200
                /\ IsNumber(r2.file.rows[i]["rating"])
                /\ r2.file.rows[i]["rating"].n = RatingBefore(file, i) + 2

(***************************************************************************)
(* C3.  An upvote whose id matches no stored row (after the id column is   *)
(* read and turned into strings), or that finds no store file, answers 404 *)
(* and leaves the file exactly as it was; an absent file stays absent.     *)
(***************************************************************************)
NoMatch(f, id) ==
    \/ ~f.exists
    \/ f.ok /\ \A i \in DOMAIN f.rows : astype_str(read_csv(f).rows[i]["id"]) # id

C3_WitnessAbsent ==
    /\ last.op = "upvote"
    /\ last.code = 404
    /\ ~file.exists

(***************************************************************************)
(* C4.  A submit made while the session holds no selection (latitude and   *)
(* longitude are None) is rejected, and it leaves the store file as it     *)
(* was.                                                                    *)
(***************************************************************************)
NoSelection(sel) == ~sel[1].some /\ ~sel[2].some

C4_SubmitWithoutSelectionRejected ==
    (last.op \in Submits /\ NoSelection(last.sel)) =>
        /\ ~last.ok
        /\ file = last.before

C4_Witness ==
    /\ last.op = "submit"
    /\ NoSelection(last.sel)
    /\ ~last.ok
    /\ file.exists
    /\ Len(file.rows) >= 1

(***************************************************************************)
(* C5.  After every successful submit the session's selection is cleared:  *)
(* its latitude and longitude are None.                                    *)
(***************************************************************************)
SelectionOf(op, sess) ==
    IF op = "submit" THEN <<clicked_lat[sess], clicked_lon[sess]>>
    ELSE <<selected_lat, selected_lon>>

C5_SelectionClearedAfterSubmit ==
    (last.op \in Submits /\ last.ok) => NoSelection(SelectionOf(last.op, last.sess))

(***************************************************************************)
(* C6.  A click overwrites the selection whatever it was: after any run of *)
(* the session its selection is its latest click, and a successful submit  *)
(* adds exactly one row, the last one, whose lat and lon are those of the  *)
(* latest click.                                                           *)
(***************************************************************************)
C6_LastClickIsSubmitted ==
    /\ \A s \in Sessions :
          last_clicked[s].some =>
              /\ clicked_lat[s] = Some(last_clicked[s].lat)
              /\ clicked_lon[s] = Some(last_clicked[s].lng)
    /\ (last.op = "submit" /\ last.ok) =>
          /\ Len(file.rows) = Len(last.before.rows) + 1
          /\ file.rows[Len(file.rows)]["lat"] = FloatCell(last_clicked[last.sess].lat)
          /\ file.rows[Len(file.rows)]["lon"] = FloatCell(last_clicked[last.sess].lng)

\* Two submits of one session, the second after a click that replaced the
\* selection the first one used.
C6_Witness ==
    /\ last.op = "submit"
    /\ last.ok
    /\ Len(file.rows) = 2
    /\ Len(last.before.rows) = 1
    /\ "rating" \notin Range(file.cols)
    /\ file.rows[1]["lat"] # file.rows[2]["lat"]
    /\ file.rows[2]["lat"] = FloatCell(last_clicked[last.sess].lat)

(***************************************************************************)
(* C7.  Writers are not serialized.  A writer's rewrite installs the table *)
(* it read plus its own change and nothing another writer stored in        *)
(* between: after a submit the file holds one row more than the submit     *)
(* read, after an upvote as many as the upvote read, however many appends  *)
(* were acknowledged meanwhile.  So two appends that both read N rows      *)
(* leave N+1 rows, and an append that falls between an upvote's read and   *)
(* write is lost.                                                          *)
(***************************************************************************)
C7_WritersOverwrite ==
    /\ (last.op = "submit" /\ last.ok) => Len(file.rows) = Len(last.before.rows) + 1
    /\ (last.op = "upvote" /\ last.ok) => Len(file.rows) = Len(last.before.rows)

\* Three appends acknowledged, the last two by writers that both read one
\* row: the file holds two rows.
C7_Witness ==
    /\ last.op = "submit"
    /\ last.ok
    /\ Len(last.before.rows) = 1
    /\ Len(file.rows) = 2
    /\ acked = 3

\* One API row and one session row acknowledged; the upvote that read the
\* API row alone has written last, and the session row is gone.
C7_WitnessUpvote ==
    /\ last.op = "upvote"
    /\ last.ok
    /\ acked = 2
    /\ now = 3
    /\ Len(file.rows) = 1
    /\ file.rows[1]["rating"] = IntCell(1)

(***************************************************************************)
(* C9.  The feed filter keeps exactly the rows whose SR_STATUS_FLAG text   *)
(* is OPEN in some letter case: after a loader has run on a feed that has  *)
(* the column, the rows that passed its filter are those rows, whatever    *)
(* the other rows hold (CLOSED, empty or missing flags are left out); on   *)
(* the example feed OPEN, CLOSED, open, "", missing, two rows pass.        *)
(***************************************************************************)
\* The spellings of OPEN among the flag texts.
OpenSpellings == {"OPEN", "open", "Open"}

HasFlagColumn(f) == f.exists /\ f.ok /\ "SR_STATUS_FLAG" \in Range(f.cols)

FlaggedOpen(f) ==
    {f.rows[i]["SR_NUMBER"].n : i \in
        {j \in DOMAIN f.rows : /\ f.rows[j]["SR_STATUS_FLAG"].k = "str"
                                /\ f.rows[j]["SR_STATUS_FLAG"].s \in OpenSpellings}}

C9_FilterKeepsOpenRows ==
    (loaded.loader # "none" /\ HasFlagColumn(feed)) =>
        /\ loaded.open = FlaggedOpen(feed)
        /\ feed = ExampleFeed => Cardinality(loaded.open) = 2
        /\ ~loaded.raised =>
              {loaded.points[i].sr.n : i \in DOMAIN loaded.points} \subseteq FlaggedOpen(feed)

\* A loader has run on the example feed and kept lines 1 and 3.
C9_Witness ==
    /\ loaded.loader = "final_app"
    /\ feed = ExampleFeed
    /\ loaded.open = {1, 3}
    /\ Len(loaded.points) = 2

(***************************************************************************)
(* C10.  When the feed has no SR_STATUS_FLAG column, the loader produces   *)
(* no points and no exception reaches its caller.                          *)
(***************************************************************************)
C10_MissingFlagColumnIsEmpty ==
    (loaded.loader # "none" /\ feed.exists /\ feed.ok /\ ~HasFlagColumn(feed)) =>
        /\ ~loaded.raised
        /\ loaded.points = <<>>

(***************************************************************************)
(* C11.  A feed row whose latitude or longitude is missing, is text that   *)
(* is no number, or is not finite, is dropped without an exception         *)
(* reaching the loader's caller, and every other OPEN row is among the     *)
(* points: after a loader has run on a feed that has the flag column, no   *)
(* exception was raised and the points are exactly the OPEN rows whose     *)
(* two coordinates are finite numbers.                                     *)
(***************************************************************************)
FiniteText(c) == c.k \in {"int", "float"}

OpenAndFinite(f) ==
    {n \in FlaggedOpen(f) :
        \E i \in DOMAIN f.rows :
            /\ f.rows[i]["SR_NUMBER"].n = n
            /\ FiniteText(f.rows[i]["LATITUDE"])
            /\ FiniteText(f.rows[i]["LONGITUDE"])}

C11_BadCoordinatesDropped ==
    (loaded.loader # "none" /\ HasFlagColumn(feed)) =>
        /\ ~loaded.raised
        /\ {loaded.points[i].sr.n : i \in DOMAIN loaded.points} = OpenAndFinite(feed)

(***************************************************************************)
(* C12.  The street-imagery fetch never raises and always returns a        *)
(* sequence: with an empty token it returns the empty sequence and issues  *)
(* no request; when the request fails, answers a non-success status, or    *)
(* its body is not JSON, is JSON that is no object, or has a "data" field  *)
(* that is no array, it returns the empty sequence.                        *)
(***************************************************************************)
BadResponse(resp) ==
    \/ resp.kind \in {"network_error", "http_error", "not_json", "json_array", "json_null"}
    \/ resp.kind = "json_object" /\ resp.data.t # "list"

C12_FetchReturnsSequence ==
    fetched.called =>
        /\ ~fetched.raised
        /\ fetched.value.t = "list"
        /\ fetched.key.token = "" => (~fetched.net /\ fetched.value = PyList(<<>>))
        /\ (fetched.net /\ BadResponse(fetched.resp)) => fetched.value = PyList(<<>>)

(***************************************************************************)
(* C13.  Two calls of the fetch with the same (bbox, token, limit) inside  *)
(* one cache window issue at most one request between them: a call that    *)
(* issues a request comes at least the ttl after the previous request for  *)
(* its key, and a call that follows a request for its key by less than the *)
(* ttl issues none and returns what the requesting call returned.          *)
(***************************************************************************)
InWindow(f) == f.prevNet.at >= 0 /\ f.t - f.prevNet.at < CacheTtl

C13_OneRequestPerWindow ==
    fetched.called =>
        /\ fetched.net => ~InWindow(fetched)
        /\ InWindow(fetched) => fetched.value = fetched.prevNet.value

\* A second call for tokA five minutes after the first, answered from the
\* cache with the item the first call fetched.
C13_Witness ==
    /\ fetched.called
    /\ fetched.key = FetchKey("tokA")
    /\ fetched.prevNet.at = 0
    /\ fetched.t = 1
    /\ ~fetched.net
    /\ fetched.value = PyList(<<GoodItem>>)
    /\ netAt[FetchKey("tokB")].at = 1

(***************************************************************************)
(* C14.  One malformed point neither aborts the composition of a layer nor *)
(* removes the other points.  For the imagery layer: no exception leaves   *)
(* the composition and its markers are exactly the items that have a       *)
(* geometry with two coordinates and an id.  For the municipal layer: no   *)
(* exception leaves it, its markers are exactly the OPEN rows with numeric *)
(* coordinates, and a popup field whose column the feed lacks is shown as  *)
(* the empty string.                                                       *)
(***************************************************************************)
ImageLayers == {"add_mapillary_markers", "create_interactive_map"}
RowLayers == {"final_app.add_pothole_csv_layer", "app.add_pothole_csv_layer"}

WellFormedItem(it) == it.geometry /\ Len(it.coords) >= 2 /\ it.id # ""

C14_MalformedPointSkipped ==
    /\ (mapped.by \in ImageLayers /\ mapped.input.t = "list") =>
          /\ ~mapped.raised
          /\ mapped.markers = Ids(SelectSeq(mapped.input.items, WellFormedItem))
    /\ mapped.by \in RowLayers =>
          /\ ~mapped.raised
          /\ {mapped.markers[i] : i \in DOMAIN mapped.markers} = OpenAndFinite(mapped.input)
          /\ \A i \in DOMAIN mapped.popups :
                \A c \in DOMAIN mapped.popups[i] :
                    c \notin Range(mapped.input.cols) => mapped.popups[i][c] = StrCell("")

(***************************************************************************)
(* C15.  The preview shows at most 10 rows, in descending order of         *)
(* timestamp, and they are the rows with the greatest timestamps: all the  *)
(* rows when the file has at most 10, otherwise 10 rows of the file none   *)
(* of which is older than a row left out.  It shows nothing, and no        *)
(* exception leaves it, when the file is absent, unparsable or has no      *)
(* timestamp column.                                                       *)
(***************************************************************************)
\* Rank of a stored timestamp text; an empty timestamp ranks lowest.
StoredRank(row) == IF row["timestamp"].k = "str" THEN TsRank(row["timestamp"].s) ELSE 0

Unlistable(f) == ~f.exists \/ ~f.ok \/ "timestamp" \notin Range(f.cols)

C15_PreviewIsRecentTen ==
    listed.done =>
        /\ ~listed.raised
        /\ Unlistable(file) => listed.rows = <<>>
        /\ ~Unlistable(file) =>
              LET shownIds == {listed.rows[i]["id"].s : i \in DOMAIN listed.rows}
              IN  /\ Len(listed.rows) = Min(10, Len(file.rows))
                  /\ Cardinality(shownIds) = Len(listed.rows)
                  /\ \A i \in DOMAIN listed.rows :
                        \E j \in DOMAIN file.rows :
                            /\ file.rows[j]["id"] = listed.rows[i]["id"]
                            /\ file.rows[j]["timestamp"] = TextOf(listed.rows[i]["timestamp"])
                  /\ \A i, j \in DOMAIN listed.rows :
                        i < j => StoredRank(listed.rows[i]) >= StoredRank(listed.rows[j])
                  /\ \A j \in DOMAIN file.rows :
                        file.rows[j]["id"].s \notin shownIds =>
                            \A i \in DOMAIN listed.rows :
                                StoredRank(file.rows[j]) <= StoredRank(listed.rows[i])

\* A file of eleven rows in ascending order: the preview shows ten, newest
\* first, and leaves out the oldest.
C15_Witness ==
    /\ listed.done
    /\ Len(file.rows) = 11
    /\ Len(listed.rows) = 10
    /\ StoredRank(listed.rows[1]) > StoredRank(listed.rows[10])
    /\ StoredRank(file.rows[1]) < StoredRank(file.rows[2])
    /\ \A i \in DOMAIN listed.rows : listed.rows[i]["id"] # file.rows[1]["id"]

(***************************************************************************)
(* C16.  Whenever the store file exists and parses, its header is id,      *)
(* name, description, severity, lat, lon, timestamp, rating, in that       *)
(* order, whichever handler wrote it.                                      *)
(***************************************************************************)
SchemaColumns == <<"id", "name", "description", "severity", "lat", "lon", "timestamp", "rating">>

C16_StoreHasSchemaColumns ==
    (file.exists /\ file.ok) => file.cols = SchemaColumns

(***************************************************************************)
(* C17.  Every stored row's rating is a non-negative integer; the row an   *)
(* append adds has rating 0; an append changes no rating of the rows that  *)
(* were there, and an upvote lowers none.                                  *)
(***************************************************************************)
IsCount(c) == c.k = "int" /\ c.n >= 0

HasRatings(f) ==
    /\ "rating" \in Range(f.cols)
    /\ \A i \in DOMAIN f.rows : IsCount(f.rows[i]["rating"])

C17_RatingIsCounter ==
    /\ (file.exists /\ file.ok) => HasRatings(file)
    /\ (last.op \in Appends /\ last.ok) =>
          /\ HasRatings(file)
          /\ file.rows[Len(file.rows)]["rating"].n = 0
          /\ \A i \in DOMAIN last.before.rows :
                HasRatings(last.before) =>
                    file.rows[i]["rating"].n = last.before.rows[i]["rating"].n
    /\ (last.op = "upvote" /\ last.ok /\ HasRatings(last.before)) =>
          /\ HasRatings(file)
          /\ \A i \in DOMAIN last.before.rows :
                file.rows[i]["rating"].n >= last.before.rows[i]["rating"].n

(***************************************************************************)
(* C18.  No two rows of the store have the same id, and an append whose id *)
(* is already stored leaves the row that has it as it was.                 *)
(***************************************************************************)
C18_IdsAreUnique ==
    /\ (file.exists /\ file.ok) =>
          \A i, j \in DOMAIN file.rows :
              i # j => StoredId(file.rows[i]["id"]) # StoredId(file.rows[j]["id"])
    /\ (last.op \in Appends /\ last.ok) =>
          \A i \in DOMAIN last.before.rows :
              /\ i \in DOMAIN file.rows
              /\ \A c \in Range(last.before.cols) :
                    SameText(file.rows[i][c], last.before.rows[i][c])

(***************************************************************************)
(* C19.  A successful upvote(id) adds exactly 1 to the rating of every row *)
(* whose id, as a string, is id, and changes nothing else: as the store    *)
(* reads back before and after, the rows are as many and in the same       *)
(* order, every other rating is what it was (0 where the store had no      *)
(* rating column), and every other field of every row is what it was.      *)
(***************************************************************************)
\* Two cells read back from the store hold the same value.
SameCell(a, b) == a = b \/ (IsNumber(a) /\ IsNumber(b) /\ a.n = b.n)

C19_UpvoteFrame ==
    (last.op = "upvote" /\ last.ok) =>
        LET before == read_csv(last.before)
            after == read_csv(file)
        IN  /\ Len(after.rows) = Len(before.rows)
            /\ Range(last.before.cols) \subseteq Range(file.cols)
            /\ \A i \in DOMAIN before.rows :
                  /\ \A c \in Range(before.cols) \ {"rating"} :
                        SameCell(after.rows[i][c], before.rows[i][c])
                  /\ IF astype_str(before.rows[i]["id"]) = last.id
                     THEN /\ IsNumber(after.rows[i]["rating"])
                          /\ after.rows[i]["rating"].n = RatingBefore(last.before, i) + 1
                     ELSE IF "rating" \in Range(before.cols)
                     THEN SameCell(after.rows[i]["rating"], before.rows[i]["rating"])
                     ELSE SameCell(after.rows[i]["rating"], IntCell(0))

(***************************************************************************)
(* C20.  In final_app a script run caused by a pan or a zoom leaves the    *)
(* session's clicked_lat / clicked_lon and the store file as they were,    *)
(* and a run caused by a click, a submit or any other rerender leaves      *)
(* map_center / map_zoom as they were; once the map has reported a center  *)
(* or a zoom, the session holds that center (as a pair) and that zoom (as  *)
(* a whole number) after every run.                                        *)
(***************************************************************************)
ViewKept(s) ==
    /\ (st_view[s].center.t = "dict" /\ st_view[s].center.keys # {}) =>
          map_center[s] = new_center(st_view[s].center)
    /\ st_view[s].zoom.t \in {"int", "float"} => map_zoom[s] = int(st_view[s].zoom)

C20_ViewAndSelectionIndependent ==
    /\ last.op = "pan_zoom" =>
          /\ <<clicked_lat[last.sess], clicked_lon[last.sess]>> = last.sel
          /\ file = last.before
    /\ last.op \in {"click", "submit", "render"} =>
          /\ map_center[last.sess] = view_before.center
          /\ map_zoom[last.sess] = view_before.zoom
    /\ \A s \in Sessions : ViewKept(s)

\* A submit that saved a row, and a later render, in a session that has a
\* selection and whose map was panned and zoomed away from the default view.
C20_Witness ==
    /\ last.op \in {"submit", "render"}
    /\ last.ok
    /\ Len(file.rows) > 0
    /\ clicked_lat[last.sess].some
    /\ map_center[last.sess] # CINCINNATI_COORDS
    /\ map_zoom[last.sess] # DEFAULT_ZOOM
    /\ st_view[last.sess].zoom.t = "float"

(***************************************************************************)
(* C21.  A submit is rejected only when nothing is selected: whenever the  *)
(* session holds a latitude and a longitude, 0 included, the submit is     *)
(* accepted and the store's last row has those coordinates.                *)
(***************************************************************************)
C21_SubmitAcceptedWhenSelected ==
    (last.op \in Submits /\ last.sel[1].some /\ last.sel[2].some) =>
        /\ last.ok
        /\ Len(file.rows) = Len(last.before.rows) + 1
        /\ IsNumber(file.rows[Len(file.rows)]["lat"])
        /\ file.rows[Len(file.rows)]["lat"].n = last.sel[1].v
        /\ IsNumber(file.rows[Len(file.rows)]["lon"])
        /\ file.rows[Len(file.rows)]["lon"].n = last.sel[2].v

(***************************************************************************)
(* C22.  In new_app.py and mapillary_streamlit.py nothing the server does  *)
(* gives the session a selection: its latitude and longitude are None in   *)
(* every state, every submit of the form is rejected, and no run of either *)
(* app changes the store file.                                             *)
(***************************************************************************)
FormOps == {"new_app_submit", "mapillary_submit"}
BrowserOps == {"new_app_click", "mapillary_click"}

C22_NoSelectionEver ==
    /\ NoSelection(<<selected_lat, selected_lon>>)
    /\ NoSelection(<<clicked_lat[MapillarySession], clicked_lon[MapillarySession]>>)
    /\ last.op \in FormOps => ~last.ok
    /\ last.op \in FormOps \cup BrowserOps => file = last.before

\* A submit rejected in each app after the user has clicked its map, with
\* rows of another writer in the store.
C22_Witness ==
    /\ last.op \in FormOps
    /\ ~last.ok
    /\ last_clicked[NewAppSession].some
    /\ last_clicked[MapillarySession].some
    /\ Len(file.rows) >= 1

(***************************************************************************)
(* C23.  A fetch that failed is kept like one that succeeded.  When the    *)
(* last request for a key failed, that call returned the empty list; a     *)
(* later call for the key less than the ttl after it issues no request and *)
(* returns the empty list, and a call that does issue a request comes at   *)
(* least the ttl after it.                                                 *)
(***************************************************************************)
AfterFailure(f) == f.prevNet.at >= 0 /\ f.prevNet.failed

C23_FailureIsMemoized ==
    /\ \A k \in FetchKeys : netAt[k].failed => netAt[k].value = PyList(<<>>)
    /\ (fetched.called /\ AfterFailure(fetched)) =>
          /\ fetched.t - fetched.prevNet.at < CacheTtl =>
                (~fetched.net /\ fetched.value = PyList(<<>>))
          /\ fetched.net => fetched.t - fetched.prevNet.at >= CacheTtl

\* A call for tokA five minutes after a request for it failed, answered
\* from the cache with the empty list.
C23_Witness ==
    /\ fetched.called
    /\ fetched.key = FetchKey("tokA")
    /\ AfterFailure(fetched)
    /\ fetched.prevNet.at = 0
    /\ fetched.t = 1
    /\ fetched.hit
    /\ fetched.value = PyList(<<>>)

(***************************************************************************)
(* C8.  No row is deleted or overwritten when handlers run one at a time:  *)
(* a successful append leaves one row more, a successful upvote the same   *)
(* number, and every row the file held before is still in it with the same *)
(* field values (the rating aside, for an upvote).                         *)
(***************************************************************************)
RowKept(b, f, i) ==
    \E j \in DOMAIN f.rows :
        \A c \in Range(b.cols) \ {"rating"} :
            c \in Range(f.cols) /\ SameText(b.rows[i][c], f.rows[j][c])

C8_RowsNeverLost ==
    /\ (last.op \in Appends /\ last.ok) => Len(file.rows) = Len(last.before.rows) + 1
    /\ (last.op \in Appends \cup {"upvote"} /\ last.ok) =>
          \A i \in DOMAIN last.before.rows : RowKept(last.before, file, i)

====
